---- MODULE Spec2Model ----
(***************************************************************************)
(* The HTTP binding (package http): HTTPSource with Init, Read, Invoke and *)
(* Operations.  The repository holds two versions of the file:             *)
(*   "flat"   src/bindings/http/http.go  (user/password fields)            *)
(*   "nested" src/unnamed/part_000       (a *credentials field)            *)
(* The variable `variant` says which of the two is running.                *)
(*                                                                         *)
(* Strings are sequences of bytes.  A Go pointer is a sequence of length   *)
(* at most one: <<>> is nil, <<x>> points to x.  An error is a string,     *)
(* "nil" when there is none.                                               *)
(***************************************************************************)
EXTENDS Integers, Sequences, FiniteSets, TLC

VARIABLES variant, metadata, initErr, configured, calls

vars == <<variant, metadata, initErr, configured, calls>>

\* Longest response body the remote endpoint sends.
MaxBody == 2

\* The host goroutines that call into the one adapter instance.
Callers == {1, 2}

Nil == <<>>
Ptr(x) == <<x>>

NoErr == "nil"

-----------------------------------------------------------------------------
(* Byte strings used as sample values. *)

GET == <<71, 69, 84>>
POST == <<80, 79, 83, 84>>
PUT == <<80, 85, 84>>

\* "/a" and "/b\" (the second needs escaping in JSON)
URLs == {<<47, 97>>, <<47, 98, 92>>}
Methods == {<<>>, PUT}
\* "", "a"
Users == {<<>>, <<97>>}
\* "", "b"
Passwords == {<<>>, <<98>>}
\* the value a host would give a "credentials" property: "{}"
CredentialTexts == {<<123, 125>>}
Payloads == {<<123, 125>>}
Statuses == {"200 OK", "404 Not Found"}
Bodies == {[i \in 1..n |-> 119 + i] : n \in 0..MaxBody}

\* bindings.Metadata.Properties: a map from string keys to string values.
KeyValues(k) ==
    CASE k = "url" -> URLs
      [] k = "URL" -> {<<47, 99>>}
      [] k = "method" -> Methods
      [] k = "user" -> Users
      [] k = "password" -> Passwords
      [] k = "credentials" -> CredentialTexts

\* The keys a bag may hold, in byte order.
SortedKeys == <<"URL", "credentials", "method", "password", "url", "user">>

NoProperties == [k \in {} |-> <<>>]

WithProperty(p, key, value) ==
    [k \in (DOMAIN p) \cup {key} |-> IF k = key THEN value ELSE p[k]]

\* every bag over the first i keys: each key absent, or set to one value
RECURSIVE bagsOver(_)
bagsOver(i) ==
    IF i = 0 THEN {NoProperties}
    ELSE LET rest == bagsOver(i - 1)
         IN rest \cup {WithProperty(p, SortedKeys[i], v) :
                          p \in rest, v \in KeyValues(SortedKeys[i])}

PropertyBags == bagsOver(Len(SortedKeys))

-----------------------------------------------------------------------------
(* encoding/base64, StdEncoding.EncodeToString *)

\* the standard alphabet: A-Z a-z 0-9 + /
encodeStd(i) ==
    IF i < 26 THEN 65 + i
    ELSE IF i < 52 THEN 97 + (i - 26)
    ELSE IF i < 62 THEN 48 + (i - 52)
    ELSE IF i = 62 THEN 43 ELSE 47

RECURSIVE EncodeToString(_)
EncodeToString(src) ==
    IF Len(src) = 0 THEN <<>>
    ELSE IF Len(src) = 1 THEN
        LET val == src[1] * 65536
        IN <<encodeStd(val \div 262144), encodeStd((val \div 4096) % 64),
             61, 61>>
    ELSE IF Len(src) = 2 THEN
        LET val == src[1] * 65536 + src[2] * 256
        IN <<encodeStd(val \div 262144), encodeStd((val \div 4096) % 64),
             encodeStd((val \div 64) % 64), 61>>
    ELSE
        LET val == src[1] * 65536 + src[2] * 256 + src[3]
        IN <<encodeStd(val \div 262144), encodeStd((val \div 4096) % 64),
             encodeStd((val \div 64) % 64), encodeStd(val % 64)>>
           \o EncodeToString(SubSeq(src, 4, Len(src)))

-----------------------------------------------------------------------------
(* net/http request construction *)

NoHeader == [n \in {} |-> <<>>]

HeaderSet(header, name, value) ==
    [n \in (DOMAIN header) \cup {name} |-> IF n = name THEN value ELSE header[n]]

\* http.NewRequest(method, url, body) as the source calls it: the request
\* records the arguments it was built from.
NewRequest(method, url, body) ==
    [Method |-> method, URL |-> url, Body |-> body, Header |-> NoHeader]

\* "Basic "
BasicPrefix == <<66, 97, 115, 105, 99, 32>>

addBasicAuthHeader(request, user, password) ==
    LET auth == user \o <<58>> \o password
        encodedAuth == EncodeToString(auth)
    IN [request EXCEPT !.Header =
            HeaderSet(request.Header, "Authorization", BasicPrefix \o encodedAuth)]

addCredentials_either(req, user, password) ==
    IF user /= <<>> \/ password /= <<>>
    THEN addBasicAuthHeader(req, user, password)
    ELSE req

\* http.go
addCredentials(req, user, password) ==
    IF user /= <<>> /\ password /= <<>>
    THEN addBasicAuthHeader(req, user, password)
    ELSE req

\* part_000: credentials is a pointer
addCredentials_nested(req, credentials) ==
    IF credentials /= Nil /\ credentials[1].User /= <<>>
                          /\ credentials[1].Password /= <<>>
    THEN addBasicAuthHeader(req, credentials[1].User, credentials[1].Password)
    ELSE req

-----------------------------------------------------------------------------
(* encoding/json, as Init uses it on a map[string]string *)

RECURSIVE escape(_)
escape(s) ==
    IF s = <<>> THEN <<>>
    ELSE IF s[1] = 34 \/ s[1] = 92 THEN <<92, s[1]>> \o escape(Tail(s))
    ELSE <<s[1]>> \o escape(Tail(s))

\* a JSON string literal: quoted, with " and \ escaped
encodeString(s) == <<34>> \o escape(s) \o <<34>>

RECURSIVE unescape(_)
unescape(s) ==
    IF s = <<>> THEN <<>>
    ELSE IF s[1] = 92 /\ Len(s) >= 2 THEN <<s[2]>> \o unescape(SubSeq(s, 3, Len(s)))
    ELSE <<s[1]>> \o unescape(Tail(s))

unquote(lit) == unescape(SubSeq(lit, 2, Len(lit) - 1))

RECURSIVE marshalMembers(_, _)
marshalMembers(properties, i) ==
    IF i > Len(SortedKeys) THEN <<>>
    ELSE IF SortedKeys[i] \in DOMAIN properties
    THEN <<[key |-> SortedKeys[i], value |-> encodeString(properties[SortedKeys[i]])]>>
         \o marshalMembers(properties, i + 1)
    ELSE marshalMembers(properties, i + 1)

\* json.Marshal(metadata.Properties) writes the keys in sorted (byte) order;
\* no string map fails to marshal.
Marshal(properties) == [b |-> marshalMembers(properties, 1), err |-> NoErr]

ToLower(key) == IF key = "URL" THEN "url" ELSE key

\* the struct field a JSON key decodes into: exact tag, else case-folded
FieldFor(key, tags) ==
    IF key \in tags THEN Ptr(key)
    ELSE IF ToLower(key) \in tags THEN Ptr(ToLower(key))
    ELSE Nil

\* type httpMetadata, http.go
ZeroMetadata == [URL |-> <<>>, Method |-> <<>>, User |-> <<>>, Password |-> <<>>]
Tags == {"url", "method", "user", "password"}

\* type httpMetadata and type credentials, part_000
ZeroCredentials == [User |-> <<>>, Password |-> <<>>]
ZeroMetadata_nested == [URL |-> <<>>, Method |-> <<>>, Credentials |-> Nil]
Tags_nested == {"url", "method", "credentials"}

TypeErr == "json: cannot unmarshal string into Go struct field"

\* Store one JSON string literal into the field tagged `tag`.  A string
\* cannot be stored into *credentials: the decoder allocates the pointer,
\* records the type error and goes on.
storeField(r, tag, lit) ==
    CASE tag = "url" -> [r EXCEPT !.m.URL = unquote(lit)]
      [] tag = "method" -> [r EXCEPT !.m.Method = unquote(lit)]
      [] tag = "user" -> [r EXCEPT !.m.User = unquote(lit)]
      [] tag = "password" -> [r EXCEPT !.m.Password = unquote(lit)]
      [] tag = "credentials" ->
            [m |-> [r.m EXCEPT !.Credentials =
                        IF @ = Nil THEN Ptr(ZeroCredentials) ELSE @],
             err |-> IF r.err = NoErr THEN TypeErr ELSE r.err]

RECURSIVE decodeMembers_firstWins(_, _, _, _)
decodeMembers_firstWins(b, i, r, tags) ==
    IF i > Len(b) THEN r
    ELSE LET f == FieldFor(b[i].key, tags)
             seen == \E j \in 1..(i - 1) : FieldFor(b[j].key, tags) = f
         IN IF f = Nil \/ seen THEN decodeMembers_firstWins(b, i + 1, r, tags)
            ELSE decodeMembers_firstWins(b, i + 1, storeField(r, f[1], b[i].value), tags)

\* the members are decoded in document order; a later member that maps to
\* the same field overwrites an earlier one; unknown keys are skipped
RECURSIVE decodeMembers(_, _, _, _)
decodeMembers(b, i, r, tags) ==
    IF i > Len(b) THEN r
    ELSE LET f == FieldFor(b[i].key, tags)
         IN IF f = Nil THEN decodeMembers(b, i + 1, r, tags)
            ELSE decodeMembers(b, i + 1, storeField(r, f[1], b[i].value), tags)

\* json.Unmarshal(b, &m) with m the zero value
Unmarshal(b, zero, tags) == decodeMembers(b, 1, [m |-> zero, err |-> NoErr], tags)

-----------------------------------------------------------------------------
(* HTTPSource.Init: the body of the method, as a function of the receiver's *)
(* metadata and the argument; it yields the new h.metadata and the error.   *)

InitBody_noAssign(h, properties, zero, tags) ==
    LET mar == Marshal(properties)
        un == Unmarshal(mar.b, zero, tags)
    IN IF mar.err /= NoErr THEN [metadata |-> h, err |-> mar.err]
       ELSE IF un.err /= NoErr THEN [metadata |-> h, err |-> un.err]
       ELSE [metadata |-> h, err |-> NoErr]

InitBody_assignFirst(h, properties, zero, tags) ==
    LET mar == Marshal(properties)
        un == Unmarshal(mar.b, zero, tags)
    IN IF mar.err /= NoErr THEN [metadata |-> h, err |-> mar.err]
       ELSE [metadata |-> un.m, err |-> un.err]

InitBody(h, properties, zero, tags) ==
    LET mar == Marshal(properties)
        un == Unmarshal(mar.b, zero, tags)
    IN IF mar.err /= NoErr THEN [metadata |-> h, err |-> mar.err]
       ELSE IF un.err /= NoErr THEN [metadata |-> h, err |-> un.err]
       ELSE [metadata |-> un.m, err |-> NoErr]

-----------------------------------------------------------------------------
(* The state of one call into the adapter.                                 *)
(*   op         the method being run ("none" before the first call)        *)
(*   pc         "idle": no call in progress; "built": the request is built; *)
(*              "responded": client.Do returned a response; "got": get     *)
(*              returned to Read; "done": the call has returned and ret    *)
(*              holds what it returned                                     *)
(*   req        the *http.Request handed to client.Do                      *)
(*   resp       the *http.Response, with whether its Body was closed       *)
(*   b          the bytes get returned                                     *)
(*   delivered  the Data of every ReadResponse passed to the handler       *)
(*   handlerErr what the handler returned                                  *)
(*   ret        what the call returned: the error, and for Invoke the      *)
(*              *InvokeResponse                                            *)

NoCall ==
    [op |-> "none", pc |-> "idle", req |-> Nil, resp |-> Nil, b |-> <<>>,
     delivered |-> <<>>, handlerErr |-> NoErr, ret |-> Nil]

Return(call, err, out) ==
    [call EXCEPT !.pc = "done", !.ret = Ptr([err |-> err, out |-> out])]

Idle == \A c \in Callers : calls[c].pc = "idle"

Init ==
    /\ variant \in {"flat", "nested"}
    /\ metadata = IF variant = "flat" THEN ZeroMetadata ELSE ZeroMetadata_nested
    /\ initErr = NoErr
    /\ configured = Nil
    /\ calls = [c \in Callers |-> NoCall]

\* The host initialises the binding while it routes no call to it; an Init
\* that overlaps a call would race on h.metadata.
HTTPSource_Init ==
    /\ Idle
    /\ \E properties \in PropertyBags :
         LET r == IF variant = "flat"
                  THEN InitBody(metadata, properties, ZeroMetadata, Tags)
                  ELSE InitBody(metadata, properties, ZeroMetadata_nested, Tags_nested)
         IN /\ metadata' = r.metadata
            /\ initErr' = r.err
            /\ configured' = IF r.err /= NoErr THEN configured
                             ELSE IF "url" \in DOMAIN properties
                                  THEN Ptr(properties["url"]) ELSE Nil
    /\ UNCHANGED <<variant, calls>>

-----------------------------------------------------------------------------
(* HTTPSource.get and HTTPSource.Read *)

getRequest_method(h, url) ==
    addCredentials(NewRequest(h.Method, url, Nil), h.User, h.Password)

\* http.go: the request get builds
getRequest(h, url) ==
    addCredentials(NewRequest(GET, url, Nil), h.User, h.Password)

\* part_000: the request get builds
getRequest_nested(h, url) ==
    addCredentials_nested(NewRequest(GET, url, Nil), h.Credentials)

\* ioutil.ReadAll(resp.Body): everything up to EOF, or what was read before
\* the read error
ReadAll(body, n, fail) ==
    IF fail THEN [b |-> SubSeq(body, 1, n), err |-> "io"]
    ELSE [b |-> body, err |-> NoErr]

\* Read evaluates h.metadata.URL, get builds the request; http.NewRequest
\* may refuse the URL.
ReadStart(c) ==
    /\ calls[c].pc = "idle"
    /\ \E ok \in BOOLEAN :
         LET url == metadata.URL
             req == IF variant = "flat" THEN getRequest(metadata, url)
                    ELSE getRequest_nested(metadata, url)
             call == [NoCall EXCEPT !.op = "Read"]
         IN calls' = [calls EXCEPT ![c] =
                IF ~ok THEN Return(call, "NewRequest", Nil)
                ELSE [call EXCEPT !.pc = "built", !.req = Ptr(req)]]
    /\ UNCHANGED <<variant, metadata, initErr, configured>>

ReadDo_swallow(c) ==
    /\ calls[c].pc = "built" /\ calls[c].op = "Read"
    /\ \/ calls' = [calls EXCEPT ![c] = Return(@, NoErr, Nil)]
       \/ \E status \in Statuses, body \in Bodies :
            calls' = [calls EXCEPT ![c].pc = "responded",
                        ![c].resp = Ptr([Status |-> status, Body |-> body,
                                         closed |-> FALSE])]
    /\ UNCHANGED <<variant, metadata, initErr, configured>>

\* get: client.Do(req) fails, or the endpoint answers
ReadDo(c) ==
    /\ calls[c].pc = "built" /\ calls[c].op = "Read"
    /\ \/ calls' = [calls EXCEPT ![c] = Return(@, "transport", Nil)]
       \/ \E status \in Statuses, body \in Bodies :
            calls' = [calls EXCEPT ![c].pc = "responded",
                        ![c].resp = Ptr([Status |-> status, Body |-> body,
                                         closed |-> FALSE])]
    /\ UNCHANGED <<variant, metadata, initErr, configured>>

\* get: ReadAll, then Close, then return b; on a read error get returns
\* before the Close and Read returns the error
ReadBody(c) ==
    /\ calls[c].pc = "responded" /\ calls[c].op = "Read"
    /\ \E fail \in BOOLEAN, n \in 0..Len(calls[c].resp[1].Body) :
         LET r == ReadAll(calls[c].resp[1].Body, n, fail)
         IN calls' = [calls EXCEPT ![c] =
                IF r.err /= NoErr THEN Return(@, r.err, Nil)
                ELSE [@ EXCEPT !.pc = "got", !.b = r.b,
                               !.resp = Ptr([@[1] EXCEPT !.closed = TRUE])]]
    /\ UNCHANGED <<variant, metadata, initErr, configured>>

ReadDeliver_twice(c) ==
    /\ calls[c].pc = "got" /\ calls[c].op = "Read"
    /\ \E herr \in {NoErr, "handler"} :
         calls' = [calls EXCEPT ![c] =
            Return([@ EXCEPT !.delivered = @ \o <<calls[c].b, calls[c].b>>,
                             !.handlerErr = herr],
                   NoErr, Nil)]
    /\ UNCHANGED <<variant, metadata, initErr, configured>>

\* Read: handler(&bindings.ReadResponse{Data: b}); return nil
ReadDeliver(c) ==
    /\ calls[c].pc = "got" /\ calls[c].op = "Read"
    /\ \E herr \in {NoErr, "handler"} :
         calls' = [calls EXCEPT ![c] =
            Return([@ EXCEPT !.delivered = Append(@, calls[c].b),
                             !.handlerErr = herr],
                   NoErr, Nil)]
    /\ UNCHANGED <<variant, metadata, initErr, configured>>

-----------------------------------------------------------------------------
(* HTTPSource.Operations *)

Operations(c) ==
    /\ calls[c].pc = "idle"
    /\ calls' = [calls EXCEPT ![c] =
            Return([NoCall EXCEPT !.op = "Operations"], NoErr, Ptr(<<"create">>))]
    /\ UNCHANGED <<variant, metadata, initErr, configured>>

-----------------------------------------------------------------------------
(* HTTPSource.Invoke *)

ContentType == "application/json; charset=utf-8"

\* http.go: the request Invoke builds
invokeRequest(h, data) ==
    LET r == NewRequest(h.Method, h.URL, data)
        r2 == [r EXCEPT !.Header = HeaderSet(@, "Content-Type", ContentType)]
    IN addCredentials(r2, h.User, h.Password)

\* part_000: the request Invoke builds
invokeRequest_nested(h, data) ==
    LET r == NewRequest(POST, h.URL, data)
        r2 == [r EXCEPT !.Header = HeaderSet(@, "Content-Type", ContentType)]
    IN addCredentials_nested(r2, h.Credentials)

InvokeStart(c) ==
    /\ calls[c].pc = "idle"
    /\ \E ok \in BOOLEAN, data \in Payloads :
         LET req == IF variant = "flat" THEN invokeRequest(metadata, data)
                    ELSE invokeRequest_nested(metadata, data)
             call == [NoCall EXCEPT !.op = "Invoke"]
         IN calls' = [calls EXCEPT ![c] =
                IF ~ok THEN Return(call, "NewRequest", Nil)
                ELSE [call EXCEPT !.pc = "built", !.req = Ptr(req)]]
    /\ UNCHANGED <<variant, metadata, initErr, configured>>

\* client.Do(r) fails, or the endpoint answers
InvokeDo(c) ==
    /\ calls[c].pc = "built" /\ calls[c].op = "Invoke"
    /\ \/ calls' = [calls EXCEPT ![c] = Return(@, "transport", Nil)]
       \/ \E status \in Statuses, body \in Bodies :
            calls' = [calls EXCEPT ![c].pc = "responded",
                        ![c].resp = Ptr([Status |-> status, Body |-> body,
                                         closed |-> FALSE])]
    /\ UNCHANGED <<variant, metadata, initErr, configured>>

\* http.go: ReadAll, Close, return the data and the status; on a read error
\* Invoke returns before the Close.  (client.Do never returns a response
\* without a Body, so the branch for a nil Body is not taken.)
invokeFinish(call, n, fail) ==
    LET resp == call.resp[1]
        r == ReadAll(resp.Body, n, fail)
    IN IF r.err /= NoErr THEN Return(call, r.err, Nil)
       ELSE Return([call EXCEPT !.resp = Ptr([resp EXCEPT !.closed = TRUE])],
                   NoErr,
                   Ptr([Data |-> r.b, Metadata |-> [status |-> resp.Status]]))

\* part_000: Close, return nil, nil
invokeFinish_nested(call) ==
    Return([call EXCEPT !.resp = Ptr([@[1] EXCEPT !.closed = TRUE])], NoErr, Nil)

InvokeFinish(c) ==
    /\ calls[c].pc = "responded" /\ calls[c].op = "Invoke"
    /\ \E fail \in BOOLEAN, n \in 0..Len(calls[c].resp[1].Body) :
         calls' = [calls EXCEPT ![c] =
            IF variant = "flat" THEN invokeFinish(@, n, fail)
            ELSE invokeFinish_nested(@)]
    /\ UNCHANGED <<variant, metadata, initErr, configured>>

-----------------------------------------------------------------------------

\* The caller has taken what the call returned; nothing of the call remains.
Returned(c) ==
    /\ calls[c].pc = "done"
    /\ calls' = [calls EXCEPT ![c] = NoCall]
    /\ UNCHANGED <<variant, metadata, initErr, configured>>

Next ==
    \/ HTTPSource_Init
    \/ \E c \in Callers : ReadStart(c)
    \/ \E c \in Callers : ReadDo(c)
    \/ \E c \in Callers : ReadBody(c)
    \/ \E c \in Callers : ReadDeliver(c)
    \/ \E c \in Callers : Operations(c)
    \/ \E c \in Callers : InvokeStart(c)
    \/ \E c \in Callers : InvokeDo(c)
    \/ \E c \in Callers : InvokeFinish(c)
    \/ \E c \in Callers : Returned(c)

Spec == Init /\ [][Next]_vars

-----------------------------------------------------------------------------
(* Properties *)

InFlight(c) == calls[c].pc /= "idle"
Done(c) == calls[c].pc = "done"

\* the user and password the descriptor holds ("" when it holds none)
DescriptorUser ==
    IF variant = "flat" THEN metadata.User
    ELSE IF metadata.Credentials = Nil THEN <<>> ELSE metadata.Credentials[1].User

DescriptorPassword ==
    IF variant = "flat" THEN metadata.Password
    ELSE IF metadata.Credentials = Nil THEN <<>> ELSE metadata.Credentials[1].Password

\* RFC 4648 decoding, written from the standard and not from EncodeToString
sextet(ch) ==
    IF ch >= 65 /\ ch <= 90 THEN ch - 65
    ELSE IF ch >= 97 /\ ch <= 122 THEN ch - 71
    ELSE IF ch >= 48 /\ ch <= 57 THEN ch + 4
    ELSE IF ch = 43 THEN 62 ELSE 63

RECURSIVE Base64Decode(_)
Base64Decode(enc) ==
    IF Len(enc) < 4 THEN <<>>
    ELSE LET b1 == sextet(enc[1]) * 4 + sextet(enc[2]) \div 16
             b2 == (sextet(enc[2]) % 16) * 16 + sextet(enc[3]) \div 4
             b3 == (sextet(enc[3]) % 4) * 64 + sextet(enc[4])
         IN IF enc[3] = 61 THEN <<b1>>
            ELSE IF enc[4] = 61 THEN <<b1, b2>>
            ELSE <<b1, b2, b3>> \o Base64Decode(SubSeq(enc, 5, Len(enc)))

HasAuthorization(req) == "Authorization" \in DOMAIN req.Header

C2_InvokeUsesConfiguredMethod ==
    \A c \in Callers :
        calls[c].op = "Invoke" /\ calls[c].req /= Nil
            => calls[c].req[1].Method = metadata.Method

\* C3: the request Read builds has method GET, whatever method the
\* descriptor holds.
C3_ReadAlwaysGET ==
    \A c \in Callers :
        calls[c].op = "Read" /\ calls[c].req /= Nil => calls[c].req[1].Method = GET

\* a Read has been answered while the descriptor's method is PUT
C3_Witness ==
    \E c \in Callers :
        calls[c].op = "Read" /\ calls[c].resp /= Nil /\ metadata.Method = PUT

\* C4: an Invoke that client.Do answered, and whose body read did not fail,
\* returns no error and a response whose metadata "status" is the status
\* line of the HTTP response.
C4_InvokeReportsStatus ==
    \A c \in Callers :
        /\ calls[c].op = "Invoke" /\ Done(c)
        /\ calls[c].resp /= Nil /\ calls[c].ret[1].err /= "io"
        => /\ calls[c].ret[1].err = NoErr
           /\ calls[c].ret[1].out /= Nil
           /\ calls[c].ret[1].out[1].Metadata.status = calls[c].resp[1].Status

\* C5: while the descriptor comes from a bag with url = U, every request of
\* a Read or an Invoke goes to exactly U.
C5_CallsUseConfiguredURL ==
    \A c \in Callers :
        calls[c].op \in {"Read", "Invoke"} /\ calls[c].req /= Nil /\ configured /= Nil
            => calls[c].req[1].URL = configured[1]

\* a Read and an Invoke have both sent a request to the URL that ends in a
\* backslash
C5_Witness ==
    /\ configured = Ptr(<<47, 98, 92>>)
    /\ \E c \in Callers : calls[c].op = "Read" /\ calls[c].resp /= Nil
    /\ \E c \in Callers : calls[c].op = "Invoke" /\ calls[c].resp /= Nil

\* C6: a Read whose handler returned an error returns that error.
C6_ReadReturnsHandlerError ==
    \A c \in Callers :
        calls[c].op = "Read" /\ Done(c) /\ calls[c].handlerErr /= NoErr
            => calls[c].ret[1].err = calls[c].handlerErr

\* the request was handed to client.Do and no response came back
TransportFailed(c) == Done(c) /\ calls[c].req /= Nil /\ calls[c].resp = Nil

\* C7: a Read or Invoke whose client.Do failed returns an error and no
\* result, and the handler of such a Read was not called.
C7_TransportErrorSurfaces ==
    \A c \in Callers :
        TransportFailed(c) =>
            /\ calls[c].ret[1].err /= NoErr
            /\ calls[c].ret[1].out = Nil
            /\ calls[c].delivered = <<>>

C7_Witness ==
    /\ \E c \in Callers : calls[c].op = "Read" /\ TransportFailed(c)
    /\ \E c \in Callers : calls[c].op = "Invoke" /\ TransportFailed(c)

\* C8: a Read that returned without error called its handler exactly once,
\* with the whole body of the response; a Read that has not got that far,
\* or that returned an error, has not called it.
C8_HandlerOnceWithBody ==
    \A c \in Callers :
        calls[c].op = "Read" =>
            IF Done(c) /\ calls[c].ret[1].err = NoErr
            THEN /\ calls[c].resp /= Nil
                 /\ calls[c].delivered = <<calls[c].resp[1].Body>>
            ELSE calls[c].delivered = <<>>

\* one Read delivered a body of full length, another failed in ReadAll
C8_Witness ==
    /\ \E c \in Callers :
         /\ calls[c].op = "Read" /\ Done(c) /\ calls[c].ret[1].err = NoErr
         /\ Len(calls[c].resp[1].Body) = MaxBody
    /\ \E c \in Callers :
         calls[c].op = "Read" /\ Done(c) /\ calls[c].ret[1].err = "io"

\* C9: no call returns while a response it obtained is still open.
C9_ResponseClosedOnReturn ==
    \A c \in Callers :
        Done(c) /\ calls[c].resp /= Nil => calls[c].resp[1].closed

\* C10: a step of a Read, Invoke or Operations call leaves the descriptor as
\* it is, and so does an Init that returns an error: the descriptor changes
\* only in a step that changes no call and ends with Init's error nil.
C10_DescriptorFrame ==
    [][metadata' /= metadata => (calls' = calls /\ initErr' = NoErr)]_vars

\* the descriptor is populated, the last Init failed, and a Read and an
\* Invoke are in progress at the same time
C10_Witness ==
    /\ metadata.URL /= <<>>
    /\ initErr /= NoErr
    /\ \E c, d \in Callers :
         /\ calls[c].op = "Read" /\ calls[c].pc = "responded"
         /\ calls[d].op = "Invoke" /\ calls[d].pc = "responded"

====
